---- MODULE Spec2Model ----
(***************************************************************************)
(* Revocation registry of the anoncreds issuer                             *)
(* (src/src/services/crypto/anoncreds/issuer.rs): issue_accumulator,       *)
(* create_claim / _issue_non_revocation_claim and revoke, acting on one    *)
(* RevocationRegistry and its RevocationRegistryPrivate (the tails table). *)
(*                                                                         *)
(* Group elements.  Every G1 point the registry handles is a combination   *)
(* of the tails g*gamma^i, gamma a uniformly random scalar of a group of   *)
(* prime order about 2^256.  A point is modelled by its discrete logarithm *)
(* to the base g written as a polynomial in gamma: the function that maps  *)
(* an exponent to its integer coefficient.  Two such points are equal for  *)
(* a random gamma exactly when the polynomials are equal (up to a          *)
(* negligible probability), so point equality is polynomial equality.      *)
(***************************************************************************)
EXTENDS Integers, FiniteSets, Sequences, TLC

\* Largest capacity (max_claim_num) handed to issue_accumulator.
MaxL == 3
\* Issuance is explored while current_i is below this value.
MaxCurrentI == 5
\* Revocations of indices that are not members are explored until acc is
\* this many tails short of the tails of the members.
MaxDeficit == 1

\* Exponents of gamma that can occur: tails 0..2L, and L+1 for acc_pk.z.
Exps == 0..(2 * MaxL + 2)

\* Option<i32>
None == [some |-> FALSE, x |-> 0]
Some(x) == [some |-> TRUE, x |-> x]

\* Capacities tried, and the indices callers pass (0, negative ones and
\* ones above L included).
Capacities == 1..MaxL
Indices(L) == (-1)..(L + 2)
SeqNumbers(L) == {None} \cup {Some(x) : x \in Indices(L)}

----------------------------------------------------------------------------
\* PointG1 (services::crypto::wrappers::pair), by discrete logarithm.

\* PointG1::new_inf(): the identity.
new_inf == [e \in Exps |-> 0]

\* pk_r.g.mul(gamma.pow_mod(i)): the point g*gamma^i.
GammaPow(i) == [e \in Exps |-> IF e = i THEN 1 ELSE 0]

\* PointG1::add and PointG1::sub.
PointAdd(a, b) == [e \in Exps |-> a[e] + b[e]]
PointSub(a, b) == [e \in Exps |-> a[e] - b[e]]

RECURSIVE PointSum(_, _)
\* The sum of f[k] over k in S (the identity when S is empty).
PointSum(f, S) ==
    IF S = {} THEN new_inf
    ELSE LET k == CHOOSE x \in S : TRUE
         IN PointAdd(f[k], PointSum(f, S \ {k}))

\* Pair::pair(g, g).pow(gamma^k): the GT element e(g,g)^(gamma^k), again by
\* its exponent.
PairGGPow(k) == GammaPow(k)

----------------------------------------------------------------------------
\* Accumulator::is_full (types.rs): the accumulator holds max_claim_num
\* members.
is_full(accumulator) == Cardinality(accumulator.v) >= accumulator.max_claim_num

\* The capacity check left out.
CapacityCheck_never(accumulator) == FALSE

\* _issue_non_revocation_claim, lines 271-273: the capacity check.
CapacityCheck(accumulator) == is_full(accumulator)

\* The loop without its test i != max_claim_num + 1.
TailKeys_noSkip(max_claim_num) ==
    LET g_count == 2 * max_claim_num
    IN 0..(g_count - 1)

\* Issuer::issue_accumulator, lines 128-138: the keys the loop inserts in g.
TailKeys(max_claim_num) ==
    LET g_count == 2 * max_claim_num
    IN {i \in 0..(g_count - 1) : i # max_claim_num + 1}

\* acc starting at the generator g instead of the identity.
issue_accumulator_accAtG(max_claim_num) ==
    [accumulator |-> [acc |-> GammaPow(0), v |-> {},
                      max_claim_num |-> max_claim_num, current_i |-> 1],
     acc_pk |-> [z |-> PairGGPow(max_claim_num + 1)],
     tails |-> [i \in TailKeys(max_claim_num) |-> GammaPow(i)]]

\* Issuer::issue_accumulator: the registry and its private part.
issue_accumulator(max_claim_num) ==
    [accumulator |-> [acc |-> new_inf, v |-> {},
                      max_claim_num |-> max_claim_num, current_i |-> 1],
     acc_pk |-> [z |-> PairGGPow(max_claim_num + 1)],
     tails |-> [i \in TailKeys(max_claim_num) |-> GammaPow(i)]]

----------------------------------------------------------------------------
\* Results.  kind and msg are those of the CryptoError of an Err.
OkRes == [res |-> "Ok", kind |-> "", msg |-> ""]
ErrRes(kind, msg) == [res |-> "Err", kind |-> kind, msg |-> msg]
NoWitness == [omega |-> new_inf, v |-> {}]

\* What a call gives back: the accumulator as the call leaves it in the
\* registry, the result, the index used and the witness of the claim.
Outcome(accumulator, result, i, witness) ==
    [accumulator |-> accumulator, result |-> result, i |-> i,
     witness |-> witness]

\* The registry's counter used also when the caller gives a seq_number.
IssueIndex_alwaysCurrent(accumulator, seq_number) == accumulator.current_i

\* _issue_non_revocation_claim, lines 275-278: the index of the claim.
IssueIndex(accumulator, seq_number) ==
    IF seq_number.some THEN seq_number.x ELSE accumulator.current_i

\* The tail of the index below.
OmegaIndex_offByOne(accumulator, j, i) == accumulator.max_claim_num - j + i

\* _issue_non_revocation_claim, line 299: the tail the member j adds to omega.
OmegaIndex(accumulator, j, i) == accumulator.max_claim_num + 1 - j + i

\* The tail of the index below.
IssueAccIndex_offByOne(accumulator, i) == accumulator.max_claim_num - i

\* _issue_non_revocation_claim, line 313: the tail added to acc.
IssueAccIndex(accumulator, i) == accumulator.max_claim_num + 1 - i

\* The tail of the index below, and the index added instead of subtracted.
RevokeIndex_offByOne(accumulator, i) == accumulator.max_claim_num - i
RevokeIndex_plus(accumulator, i) == accumulator.max_claim_num + 1 + i

\* Issuer::revoke, line 361: the tail subtracted from acc.
RevokeIndex(accumulator, i) == accumulator.max_claim_num + 1 - i

\* The witness built from v as it was before the insertion of i.
_issue_non_revocation_claim_staleWitness(accumulator, g, seq_number, fault) ==
    IF CapacityCheck(accumulator)
    THEN Outcome(accumulator,
                 ErrRes("InvalidStructure", "Accumulator is full"), 0, NoWitness)
    ELSE
      LET i == IssueIndex(accumulator, seq_number)
          acc1 == [accumulator EXCEPT !.current_i = @ + 1]
          omegaIdx == {OmegaIndex(acc1, j, i) : j \in acc1.v}
          index == IssueAccIndex(acc1, i)
          notFound == Outcome(acc1, ErrRes("InvalidStructure", "not found in g"),
                              i, NoWitness)
      IN IF fault = "crypto"
         THEN Outcome(acc1, ErrRes("OperationFailed", "primitive"), i, NoWitness)
         ELSE IF i \notin DOMAIN g THEN notFound
         ELSE IF ~(omegaIdx \subseteq DOMAIN g) THEN notFound
         ELSE IF index \notin DOMAIN g THEN notFound
         ELSE LET omega == PointSum(g, omegaIdx)
                  acc2 == [acc1 EXCEPT !.acc = PointAdd(@, g[index]),
                                       !.v = @ \cup {i}]
              IN Outcome(acc2, OkRes, i, [omega |-> omega, v |-> acc1.v])

\* Issuer::_issue_non_revocation_claim.  fault = "crypto" is a primitive
\* (GroupOrderElement::new, from_bytes, mul, inverse, ...) returning Err.
_issue_non_revocation_claim(accumulator, g, seq_number, fault) ==
    IF CapacityCheck(accumulator)
    THEN Outcome(accumulator,
                 ErrRes("InvalidStructure", "Accumulator is full"), 0, NoWitness)
    ELSE
      LET i == IssueIndex(accumulator, seq_number)
          acc1 == [accumulator EXCEPT !.current_i = @ + 1]
          omegaIdx == {OmegaIndex(acc1, j, i) : j \in acc1.v}
          index == IssueAccIndex(acc1, i)
          notFound == Outcome(acc1, ErrRes("InvalidStructure", "not found in g"),
                              i, NoWitness)
      IN IF fault = "crypto"
         THEN Outcome(acc1, ErrRes("OperationFailed", "primitive"), i, NoWitness)
         ELSE IF i \notin DOMAIN g THEN notFound
         ELSE IF ~(omegaIdx \subseteq DOMAIN g) THEN notFound
         ELSE IF index \notin DOMAIN g THEN notFound
         ELSE LET omega == PointSum(g, omegaIdx)
                  acc2 == [acc1 EXCEPT !.acc = PointAdd(@, g[index]),
                                       !.v = @ \cup {i}]
              IN Outcome(acc2, OkRes, i, [omega |-> omega, v |-> acc2.v])

\* Issuer::create_claim for a claim definition with a revocation key.
\* fault = "primary" is an Err before the non-revocation claim is issued
\* (_issue_primary_claim, a missing secret_key_revocation or ur).
create_claim(accumulator, g, user_revoc_index, fault) ==
    IF fault = "primary"
    THEN Outcome(accumulator, ErrRes("InvalidStructure", "primary claim"),
                 0, NoWitness)
    ELSE _issue_non_revocation_claim(accumulator, g, user_revoc_index, fault)

\* revoke without the removal from v.
revoke_noRemove(accumulator, g, i) ==
    LET index == RevokeIndex(accumulator, i)
    IN IF index \notin DOMAIN g
       THEN Outcome(accumulator, ErrRes("InvalidStructure", "not found in g"),
                    i, NoWitness)
       ELSE Outcome([accumulator EXCEPT !.acc = PointSub(@, g[index])], OkRes,
                    i, NoWitness)

\* revoke subtracting the tail only when i was a member.
revoke_membersOnly(accumulator, g, i) ==
    LET acc1 == [accumulator EXCEPT !.v = @ \ {i}]
        index == RevokeIndex(acc1, i)
    IN IF index \notin DOMAIN g
       THEN Outcome(acc1, ErrRes("InvalidStructure", "not found in g"),
                    i, NoWitness)
       ELSE IF i \in accumulator.v
       THEN Outcome([acc1 EXCEPT !.acc = PointSub(@, g[index])], OkRes,
                    i, NoWitness)
       ELSE Outcome(acc1, OkRes, i, NoWitness)

\* Issuer::revoke.
revoke(accumulator, g, i) ==
    LET acc1 == [accumulator EXCEPT !.v = @ \ {i}]
        index == RevokeIndex(acc1, i)
    IN IF index \notin DOMAIN g
       THEN Outcome(acc1, ErrRes("InvalidStructure", "not found in g"),
                    i, NoWitness)
       ELSE Outcome([acc1 EXCEPT !.acc = PointSub(@, g[index])], OkRes,
                    i, NoWitness)

----------------------------------------------------------------------------
VARIABLES
    created,      \* issue_accumulator has returned the registry
    accumulator,  \* revocation_registry.accumulator
    acc_pk,       \* revocation_registry.acc_pk
    tails,        \* revocation_registry_private.tails
    last,         \* the last call: arguments, result, accumulator before it
    held,         \* a claim's witness that its prover keeps
    calc,         \* a call of a function that has no state: its arguments
                  \* and its result
    plain,        \* calls create_claim(.., None) made in a row on the fresh
                  \* registry (up to L+1), -1 once any other call was made
    flight,       \* the call that holds the registry's borrow_mut(), and
                  \* how far it has come
    seen          \* what a reader of the registry got from its last borrow()

\* What the calls on the registry leave alone.
aside == <<held, calc, flight, seen>>

vars == <<created, accumulator, acc_pk, tails, last, aside, plain>>

Faults == {"none", "primary", "crypto"}

NoAccumulator == [acc |-> new_inf, v |-> {}, max_claim_num |-> 0, current_i |-> 0]

\* The record of a call: arguments, index used, result, the accumulator
\* before it (pre), and for a revoke, before: whether the call before it
\* was a successful issuance, with its index and the accumulator before
\* that one.
Call(op, arg, out, pre, before) ==
    [op |-> op, arg |-> arg, i |-> out.i, result |-> out.result,
     witness |-> out.witness, pre |-> pre, before |-> before]

IssuedOk(c) == c.op = "create_claim" /\ c.result.res = "Ok"

NoBefore == [issued |-> FALSE, i |-> 0, pre |-> NoAccumulator]
Before(c) ==
    IF IssuedOk(c) THEN [issued |-> TRUE, i |-> c.i, pre |-> c.pre]
    ELSE NoBefore

\* No witness kept; the witness of the issuance c, with the index and the
\* v the issuance started from.
NoHeld == [valid |-> FALSE, i |-> 0, pre_v |-> {}, witness |-> NoWitness]
HeldOf(c) ==
    [valid |-> TRUE, i |-> c.i, pre_v |-> c.pre.v, witness |-> c.witness]

NoCalc == [op |-> "none"]

\* No call in progress; nothing read.
NoFlight == [op |-> "none"]
NoSeen == [res |-> "none"]

Init ==
    /\ held = NoHeld
    /\ calc = NoCalc
    /\ flight = NoFlight
    /\ seen = NoSeen
    /\ plain = -1
    /\ created = FALSE
    /\ accumulator = NoAccumulator
    /\ acc_pk = [z |-> new_inf]
    /\ tails = [i \in {} |-> new_inf]
    /\ last = Call("new", None, Outcome(NoAccumulator, OkRes, 0, NoWitness),
                   NoAccumulator, NoBefore)

IssueAccumulator(max_claim_num) ==
    /\ ~created
    /\ LET r == issue_accumulator(max_claim_num)
       IN /\ accumulator' = r.accumulator
          /\ acc_pk' = r.acc_pk
          /\ tails' = r.tails
          /\ last' = Call("issue_accumulator", Some(max_claim_num),
                          Outcome(r.accumulator, OkRes, 0, NoWitness),
                          accumulator, NoBefore)
    /\ created' = TRUE
    /\ plain' = 0
    /\ UNCHANGED aside

CreateClaim(user_revoc_index, fault) ==
    /\ created
    /\ accumulator.current_i < MaxCurrentI
    /\ LET out == create_claim(accumulator, tails, user_revoc_index, fault)
       IN /\ accumulator' = out.accumulator
          /\ last' = Call("create_claim", user_revoc_index, out, accumulator,
                          NoBefore)
    /\ plain' = IF /\ plain >= 0 /\ plain <= accumulator.max_claim_num
                   /\ ~user_revoc_index.some /\ fault = "none"
                THEN plain + 1 ELSE -1
    /\ UNCHANGED <<created, acc_pk, tails, aside>>

RECURSIVE CoeffSum(_, _)
CoeffSum(p, S) ==
    IF S = {} THEN 0
    ELSE LET e == CHOOSE x \in S : TRUE IN p[e] + CoeffSum(p, S \ {e})

\* How many tails acc is short of one tail per member of v.
Deficit(a) == Cardinality(a.v) - CoeffSum(a.acc, Exps)

Revoke(i) ==
    /\ created
    /\ LET out == revoke(accumulator, tails, i)
       IN /\ Deficit(out.accumulator) <= MaxDeficit
          /\ accumulator' = out.accumulator
          /\ last' = Call("revoke", Some(i), out, accumulator,
                          Before(last))
    /\ plain' = -1
    /\ UNCHANGED <<created, acc_pk, tails, aside>>

\* The prover keeps the witness of the claim that create_claim returned.
Keep ==
    /\ IssuedOk(last)
    /\ held # HeldOf(last)
    /\ held' = HeldOf(last)
    /\ UNCHANGED <<created, accumulator, acc_pk, tails, last, plain, calc,
                   flight, seen>>

Next ==
    \/ \E L \in Capacities : IssueAccumulator(L)
    \/ \E s \in SeqNumbers(accumulator.max_claim_num), f \in Faults :
          CreateClaim(s, f)
    \/ \E i \in Indices(accumulator.max_claim_num) : Revoke(i)

Spec == Init /\ [][Next]_vars

\* The callers that never revoke an index that is not a member.
NextMember ==
    \/ \E L \in Capacities : IssueAccumulator(L)
    \/ \E s \in SeqNumbers(accumulator.max_claim_num), f \in Faults :
          CreateClaim(s, f)
    \/ \E i \in accumulator.v : Revoke(i)

SpecMember == Init /\ [][NextMember]_vars

\* The same callers, and a prover that keeps a witness.
NextWitness ==
    \/ \E L \in Capacities : IssueAccumulator(L)
    \/ \E s \in SeqNumbers(accumulator.max_claim_num), f \in Faults :
          CreateClaim(s, f)
    \/ \E i \in accumulator.v : Revoke(i)
    \/ Keep

SpecWitness == Init /\ [][NextWitness]_vars

----------------------------------------------------------------------------
\* The calls taken one statement at a time, and a reader of the registry.

\* The RefMut released before the call has returned.
BorrowedMut_releasedEarly(f) == FALSE

\* Lines 269 and 359: "let ref mut accumulator =
\* revocation_registry.borrow_mut().accumulator" keeps the RefMut of the
\* RefCell until the call returns.
BorrowedMut(f) == f.op # "none"

\* The (acc, v) that the calls completed so far have left.
Completed ==
    IF flight.op = "none" THEN <<accumulator.acc, accumulator.v>>
    ELSE flight.pre

InFlight(op, pc, out) ==
    [op |-> op, pc |-> pc, out |-> out.accumulator,
     pre |-> <<accumulator.acc, accumulator.v>>]

\* create_claim up to line 312: the capacity check, the index, current_i
\* and everything that can fail.
IssueBegin(user_revoc_index, fault) ==
    /\ created
    /\ flight = NoFlight
    /\ accumulator.current_i < MaxCurrentI
    /\ LET out == create_claim(accumulator, tails, user_revoc_index, fault)
       IN IF out.result.res = "Err"
          THEN /\ accumulator' = out.accumulator
               /\ flight' = NoFlight
          ELSE /\ accumulator' =
                      [accumulator EXCEPT
                          !.current_i = out.accumulator.current_i]
               /\ flight' = InFlight("create_claim", "acc", out)
    /\ seen' = NoSeen
    /\ UNCHANGED <<created, acc_pk, tails, last, plain, held, calc>>

\* Lines 313-314: accumulator.acc = accumulator.acc.add(..).
IssueAcc ==
    /\ flight.op = "create_claim" /\ flight.pc = "acc"
    /\ accumulator' = [accumulator EXCEPT !.acc = flight.out.acc]
    /\ flight' = [flight EXCEPT !.pc = "v"]
    /\ seen' = NoSeen
    /\ UNCHANGED <<created, acc_pk, tails, last, plain, held, calc>>

\* Line 316: accumulator.v.insert(i), and the return.
IssueInsert ==
    /\ flight.op = "create_claim" /\ flight.pc = "v"
    /\ accumulator' = [accumulator EXCEPT !.v = flight.out.v]
    /\ flight' = NoFlight
    /\ seen' = NoSeen
    /\ UNCHANGED <<created, acc_pk, tails, last, plain, held, calc>>

\* revoke, lines 359-363: accumulator.v.remove(&i) and the lookup of the
\* tail, which returns Err when the tail is missing.
RevokeBegin(i) ==
    /\ created
    /\ flight = NoFlight
    /\ LET out == revoke(accumulator, tails, i)
       IN /\ Deficit(out.accumulator) <= MaxDeficit
          /\ accumulator' = [accumulator EXCEPT !.v = out.accumulator.v]
          /\ flight' = IF out.result.res = "Err" THEN NoFlight
                       ELSE InFlight("revoke", "acc", out)
    /\ seen' = NoSeen
    /\ UNCHANGED <<created, acc_pk, tails, last, plain, held, calc>>

\* revoke, line 364: accumulator.acc = accumulator.acc.sub(element), and the
\* return.
RevokeSub ==
    /\ flight.op = "revoke" /\ flight.pc = "acc"
    /\ accumulator' = [accumulator EXCEPT !.acc = flight.out.acc]
    /\ flight' = NoFlight
    /\ seen' = NoSeen
    /\ UNCHANGED <<created, acc_pk, tails, last, plain, held, calc>>

\* A reader borrows the registry: RefCell::borrow panics while a RefMut is
\* alive, and else gives the accumulator as it is.
Observe ==
    /\ created
    /\ seen = NoSeen
    /\ seen' = IF BorrowedMut(flight) THEN [res |-> "BorrowError"]
               ELSE [res |-> "Ok", acc |-> accumulator.acc,
                     v |-> accumulator.v, completed |-> Completed]
    /\ UNCHANGED <<created, accumulator, acc_pk, tails, last, plain, held,
                   calc, flight>>

NextSteps ==
    \/ \E L \in Capacities : IssueAccumulator(L)
    \/ \E s \in SeqNumbers(accumulator.max_claim_num), f \in Faults :
          IssueBegin(s, f)
    \/ IssueAcc
    \/ IssueInsert
    \/ \E i \in Indices(accumulator.max_claim_num) : RevokeBegin(i)
    \/ RevokeSub
    \/ Observe

SpecSteps == Init /\ [][NextSteps]_vars

----------------------------------------------------------------------------
\* Shorthands of the properties below, written out from the registry's
\* fields (none of them uses an operator of the operations above).

L == accumulator.max_claim_num

IssueCall == last.op = "create_claim"
RevokeCall == last.op = "revoke"
Failed == last.result.res = "Err"
Succeeded == last.result.res = "Ok"

\* The call reached _issue_non_revocation_claim.
ReachedNonRevocation == IssueCall /\ last.result.msg # "primary claim"

\* The index an issuance uses, from the call's arguments.
RequestedIndex ==
    IF last.arg.some THEN last.arg.x ELSE last.pre.current_i

\* The sum of the tails g*gamma^(L+1-j) of the members j of v.
MemberSum(v) == [e \in Exps |-> Cardinality({j \in v : L + 1 - j = e})]

\* C1: an issuance of a non-revocation credential that returns an error
\* leaves acc, v and current_i as they were before the call.
C1_FailedIssueUnchanged ==
    (IssueCall /\ Failed) =>
        /\ accumulator.acc = last.pre.acc
        /\ accumulator.v = last.pre.v
        /\ accumulator.current_i = last.pre.current_i

\* C2: after a successful issuance with index i, v = v_prev \cup {i} and
\* acc = acc_prev + tails[L+1-i].
C2_IssueAddsMember ==
    (IssueCall /\ Succeeded) =>
        /\ last.i \in accumulator.v
        /\ accumulator.v = last.pre.v \cup {last.i}
        /\ (L + 1 - last.i) \in DOMAIN tails
        /\ accumulator.acc = [e \in Exps |->
               last.pre.acc[e] + tails[L + 1 - last.i][e]]

C2_Witness ==
    IssueCall /\ Succeeded /\ last.pre.v # {} /\ last.arg.some

\* C3: after a successful revoke(i), i is not in v, v = v_prev \ {i},
\* acc = acc_prev - tails[L+1-i] and current_i is unchanged.
C3_RevokeRemovesMember ==
    (RevokeCall /\ Succeeded) =>
        /\ last.i \notin accumulator.v
        /\ accumulator.v = last.pre.v \ {last.i}
        /\ (L + 1 - last.i) \in DOMAIN tails
        /\ accumulator.acc = [e \in Exps |->
               last.pre.acc[e] - tails[L + 1 - last.i][e]]
        /\ accumulator.current_i = last.pre.current_i

C3_Witness ==
    RevokeCall /\ Succeeded /\ last.i \in last.pre.v /\ accumulator.v # {}

\* C4: revoke(i) called right after a successful issuance of index i
\* succeeds and returns acc and v to their values before that issuance (on
\* a fresh registry: v empty and acc the identity).
C4_IssueRevokeRoundTrip ==
    (RevokeCall /\ last.before.issued /\ last.i = last.before.i) =>
        /\ Succeeded
        /\ accumulator.acc = last.before.pre.acc
        /\ accumulator.v = last.before.pre.v
        /\ (last.before.pre.current_i = 1 /\ last.before.pre.v = {}
              /\ last.before.pre.acc = new_inf)
             => (accumulator.v = {} /\ accumulator.acc = new_inf)

C4_Witness ==
    /\ RevokeCall /\ last.before.issued /\ last.i = last.before.i
    /\ last.before.pre.v # {}

\* C5: an issuance called on a full accumulator (|v| = L) fails with
\* InvalidStructure "Accumulator is full" and changes nothing; one called
\* with |v| < L is not rejected by the capacity check.
C5_Capacity ==
    ReachedNonRevocation =>
        /\ Cardinality(last.pre.v) = L =>
              /\ Failed
              /\ last.result.kind = "InvalidStructure"
              /\ last.result.msg = "Accumulator is full"
              /\ accumulator = last.pre
        /\ Cardinality(last.pre.v) < L =>
              last.result.msg # "Accumulator is full"

C5_Witness ==
    ReachedNonRevocation /\ Cardinality(last.pre.v) = L /\ L >= 2

\* C6: the tails table of issue_accumulator(pk_r, L, _) has the key set
\* {0..2L} \ {L+1}, hence 2L entries.
C6_TailsKeys ==
    created =>
        /\ DOMAIN tails = (0..(2 * L)) \ {L + 1}
        /\ Cardinality(DOMAIN tails) = 2 * L

\* C7: the tails table never has the key L+1; acc_pk.z is
\* e(g,g)^(gamma^(L+1)) all the same; a revocation or an issuance whose
\* computation needs tails[L+1] fails with InvalidStructure.
C7_NoTailAtLPlus1 ==
    created =>
        /\ (L + 1) \notin DOMAIN tails
        /\ acc_pk.z = [e \in Exps |-> IF e = L + 1 THEN 1 ELSE 0]
        /\ (RevokeCall /\ L + 1 - last.i = L + 1) =>
              (Failed /\ last.result.kind = "InvalidStructure")
        /\ (/\ ReachedNonRevocation
            /\ last.result.kind # "OperationFailed"
            /\ \/ RequestedIndex = L + 1
               \/ L + 1 - RequestedIndex = L + 1
               \/ \E j \in last.pre.v : L + 1 - j + RequestedIndex = L + 1)
              => (Failed /\ last.result.kind = "InvalidStructure"
                    /\ accumulator.acc = last.pre.acc
                    /\ accumulator.v = last.pre.v)

C7_Witness ==
    /\ created /\ L >= 2
    /\ ReachedNonRevocation /\ last.result.msg = "not found in g"
    /\ RequestedIndex \in last.pre.v

\* C8: while revoke is only called with members of v, acc is the sum of
\* tails[L+1-j] over the members j of v (the identity when v is empty).
C8_Lockstep ==
    created => accumulator.acc = MemberSum(accumulator.v)

C8_Witness ==
    created /\ RevokeCall /\ Cardinality(accumulator.v) >= 1
      /\ Cardinality(last.pre.v) >= 2

\* C9: revoke(i) of an index that is not in v but whose tail exists
\* succeeds, leaves v unchanged and still subtracts tails[L+1-i] from acc,
\* so that acc leaves the sum over v.
C9_RevokeNonMember ==
    (RevokeCall /\ last.i \notin last.pre.v
       /\ (L + 1 - last.i) \in DOMAIN tails) =>
        /\ Succeeded
        /\ accumulator.v = last.pre.v
        /\ accumulator.acc = [e \in Exps |->
               last.pre.acc[e] - tails[L + 1 - last.i][e]]
        /\ accumulator.acc # last.pre.acc
        /\ last.pre.acc = MemberSum(last.pre.v)
              => accumulator.acc # MemberSum(accumulator.v)

C9_Witness ==
    /\ RevokeCall /\ Succeeded /\ last.i \notin last.pre.v
    /\ last.before.issued = FALSE /\ last.i \in 1..L
    /\ last.pre.acc = MemberSum(last.pre.v) /\ last.pre.v # {}

\* C10: a revoke(i) that fails (tails[L+1-i] is missing) leaves acc, v and
\* current_i as they were before the call.
C10_FailedRevokeUnchanged ==
    (RevokeCall /\ Failed) =>
        /\ last.result.kind = "InvalidStructure"
        /\ (L + 1 - last.i) \notin DOMAIN tails
        /\ accumulator.acc = last.pre.acc
        /\ accumulator.v = last.pre.v
        /\ accumulator.current_i = last.pre.current_i

C10_Witness ==
    RevokeCall /\ Failed /\ last.pre.v # {} /\ last.i > L

\* C11: a successful issuance uses the index seq_number when the caller
\* gives one and current_i otherwise, and in both cases leaves current_i one
\* above its value before the call.
C11_IndexAssignment ==
    (IssueCall /\ Succeeded) =>
        /\ last.arg.some => last.i = last.arg.x
        /\ ~last.arg.some => last.i = last.pre.current_i
        /\ accumulator.current_i = last.pre.current_i + 1

C11_Witness ==
    /\ IssueCall /\ Succeeded /\ last.arg.some
    /\ last.arg.x # last.pre.current_i

\* C18: the omega of a successful issuance with index i is the sum of
\* tails[L+1-j+i] over the members j of v before i was inserted (no term of
\* i itself; the identity when v was empty), while witness.v contains i.
C18_OmegaOverPreviousMembers ==
    (IssueCall /\ Succeeded) =>
        /\ last.witness.omega = [e \in Exps |->
               Cardinality({j \in last.pre.v : L + 1 - j + last.i = e})]
        /\ last.witness.omega[L + 1] = 0
        /\ last.pre.v = {} => last.witness.omega = new_inf
        /\ last.i \in last.witness.v

C18_Witness ==
    IssueCall /\ Succeeded /\ Cardinality(last.pre.v) >= 2

\* C12: the witness of a successful issuance with index i has
\* v = v_prev \cup {i}, which is accumulator.v right after the call, and it
\* is a copy: whatever is issued or revoked later, the witness a prover
\* keeps still has the v it was returned with.
C12_WitnessSnapshot ==
    /\ (IssueCall /\ Succeeded) =>
          /\ last.witness.v = last.pre.v \cup {last.i}
          /\ last.witness.v = accumulator.v
    /\ held.valid => held.witness.v = held.pre_v \cup {held.i}

C12_Witness ==
    /\ held.valid /\ held.witness.v # accumulator.v
    /\ RevokeCall /\ Succeeded /\ last.before.issued

\* C20: on a fresh registry of capacity L, the k-th of L issuances in a row
\* without seq_number succeeds with index k, after them v = 1..L and
\* current_i = L+1, and the (L+1)-th fails with "Accumulator is full".
C20_FillsToCapacity ==
    (created /\ plain >= 1) =>
        /\ plain <= L =>
              /\ Succeeded
              /\ last.i = plain
              /\ accumulator.v = 1..plain
              /\ accumulator.current_i = plain + 1
        /\ plain = L + 1 =>
              /\ Failed
              /\ last.result.msg = "Accumulator is full"

----------------------------------------------------------------------------
\* The functions that have no state.

\* Largest timestamp of a NonRevocedInterval that is tried.
MaxTime == 1

registry ==
    <<created, accumulator, acc_pk, tails, last, held, plain, flight, seen>>

\* NonRevocedInterval { from: Option<u64>, to: Option<u64> } and
\* Option<NonRevocedInterval>.
OptTimes == {None} \cup {Some(t) : t \in 0..MaxTime}
NonRevocedIntervals == [from : OptTimes, to : OptTimes]
NoInterval == [some |-> FALSE, x |-> [from |-> None, to |-> None]]
OptIntervals == {NoInterval} \cup {Some(n) : n \in NonRevocedIntervals}

\* Option::or and Option::or_else.
OptionOr(a, b) == IF a.some THEN a ELSE b

\* The global interval taken first.
get_non_revoc_interval_globalFirst(global_interval, local_interval) ==
    OptionOr(global_interval, OptionOr(local_interval, NoInterval))

\* helpers.rs, get_non_revoc_interval.
get_non_revoc_interval(global_interval, local_interval) ==
    OptionOr(local_interval, OptionOr(global_interval, NoInterval))

\* Longest attribute name that is tried.
MaxNameLen == 2

\* Attribute names: strings over a few characters, a space and an upper
\* case letter among them.
Chars == {"a", "A", "b", " "}
RECURSIVE Strings(_)
Strings(n) ==
    IF n = 0 THEN {<<>>}
    ELSE Strings(n - 1) \cup
         {Append(s, c) : s \in {t \in Strings(n - 1) : Len(t) = n - 1}, c \in Chars}
Names == Strings(MaxNameLen) \ {<<>>}
\* Schema.attribute_names: one name, or one name and "b".
Schemas == {{n} : n \in Names} \cup {{n, <<"b">>} : n \in Names}

\* char::to_lowercase
ToLower(c) == IF c = "A" THEN "a" ELSE c

RECURSIVE RemoveSpaces(_)
\* str::replace(" ", "")
RemoveSpaces(s) ==
    IF s = <<>> THEN <<>>
    ELSE IF Head(s) = " " THEN RemoveSpaces(Tail(s))
    ELSE <<Head(s)>> \o RemoveSpaces(Tail(s))

\* helpers.rs, attr_common_view.
attr_common_view(attr) ==
    LET t == RemoveSpaces(attr) IN [k \in 1..Len(t) |-> ToLower(t[k])]

\* Issuer::_generate_keys, lines 80-85: the keys of public_key.r.
RKeys(attribute_names) == {attribute : attribute \in attribute_names}

\* Issuer::_sign, lines 231-232: public_key.r.get(key).
RLookup(r_keys, key) ==
    IF key \in r_keys THEN OkRes
    ELSE ErrRes("InvalidStructure", "not found in pk.r")

\* _generate_keys for a schema, then the lookup that _sign makes for the
\* credential attribute key.
SignLookup(attribute_names, key) ==
    /\ calc = NoCalc
    /\ calc' = [op |-> "r.get", attribute_names |-> attribute_names,
                key |-> key,
                result |-> RLookup(RKeys(attribute_names), key)]
    /\ UNCHANGED registry

\* Largest value tried for v'', m2 and an encoded attribute value.
MaxSignInput == 2

\* BigNumber::mod_exp, inverse and mod_div (services::crypto::wrappers::bn).
RECURSIVE ModExp(_, _, _)
ModExp(b, k, n) == IF k = 0 THEN 1 % n ELSE (b * ModExp(b, k - 1, n)) % n
HasInverse(a, n) == \E y \in 1..(n - 1) : (a * y) % n = 1
ModInverse(a, n) == CHOOSE y \in 1..(n - 1) : (a * y) % n = 1
ModDiv(z, a, n) == (z * ModInverse(a % n, n)) % n

\* Issuer::_generate_keys, lines 68-75: p' and q' of the safe primes
\* p = 2p'+1 and q = 2q'+1 (7 and 11, 5 and 11).
SafePrimeHalves == {<<3, 5>>, <<2, 5>>}

\* Issuer::_generate_keys.  x is the number random_qr squares; xz, xr and
\* xctxt are the results of _gen_x for z, r["name"] and rctxt.
generate_keys(halves, x, xz, xr, xctxt) ==
    LET p_prime == halves[1]
        q_prime == halves[2]
        n == (2 * p_prime + 1) * (2 * q_prime + 1)
        s == (x * x) % n
    IN [public_key |->
            [n |-> n, s |-> s, z |-> ModExp(s, xz, n),
             r |-> [a \in {"name"} |-> ModExp(s, xr, n)],
             rctxt |-> ModExp(s, xctxt, n)],
        secret_key |-> [p |-> p_prime, q |-> q_prime]]

\* The keys tried.
KeyPairs ==
    {generate_keys(h, x, xz, 4, 5) : h \in SafePrimeHalves, x \in {2, 3},
                                     xz \in {2, 3}}

\* Issuer::_sign for attributes that public_key.r knows.
sign(public_key, secret_key, context_attribute, attributes, v, u, e) ==
    LET n == public_key.n
        rx0 == IF "name" \in DOMAIN attributes
               THEN ModExp(public_key.r["name"], attributes["name"], n) ELSE 1
        rx1 == rx0 * ModExp(public_key.rctxt, context_attribute, n)
        rx == IF u # 0 THEN rx1 * (u % n) ELSE rx1
        nsk == secret_key.p * secret_key.q
        a1 == ModExp(public_key.s, v, n) * rx
    IN IF ~HasInverse(a1 % n, n) \/ ~HasInverse(e % nsk, nsk)
       THEN [result |-> ErrRes("OperationFailed", "inverse"), a |-> 0]
       ELSE [result |-> OkRes,
             a |-> ModExp(ModDiv(public_key.z, a1, n),
                          ModInverse(e % nsk, nsk), n)]

\* The primes e tried: larger than p' and q', as the e of
\* _issue_primary_claim are by their sizes.
SignExponents == {13, 17}

Sign(keys, context_attribute, attributes, v, u, e) ==
    /\ calc = NoCalc
    /\ LET out == sign(keys.public_key, keys.secret_key, context_attribute,
                       attributes, v, u, e)
       IN calc' = [op |-> "_sign", public_key |-> keys.public_key,
                   secret_key |-> keys.secret_key,
                   context_attribute |-> context_attribute,
                   attributes |-> attributes, v |-> v, u |-> u, e |-> e,
                   result |-> out.result, a |-> out.a]
    /\ UNCHANGED registry

\* Largest blinding value and challenge tried for a non-revocation proof.
MaxScalar == 2

\* The order of G1, of GT and of the field of GroupOrderElement, a small
\* prime here.  A PointG1 is its discrete logarithm to a fixed generator and
\* a Pair the exponent of the pairing of that generator with itself.
GroupOrder == 11

Fq == 0..(GroupOrder - 1)

\* GroupOrderElement::mod_neg, add_mod, pow_mod and inverse.
mod_neg(k) == (GroupOrder - (k % GroupOrder)) % GroupOrder
add_mod(a, b) == (a + b) % GroupOrder
RECURSIVE pow_mod(_, _)
pow_mod(a, k) == IF k = 0 THEN 1 ELSE (a * pow_mod(a, k - 1)) % GroupOrder
fq_inverse(a) == CHOOSE y \in Fq : (a * y) % GroupOrder = 1

\* PointG1::add, mul and neg.
point_add(a, b) == (a + b) % GroupOrder
point_mul(a, k) == (a * k) % GroupOrder
point_neg(a) == (GroupOrder - a) % GroupOrder

\* Pair::pair, mul, pow and inverse.
pair(a, b) == (a * b) % GroupOrder
pair_mul(a, b) == (a + b) % GroupOrder
pair_pow(a, k) == (a * k) % GroupOrder
pair_inverse(a) == (GroupOrder - a) % GroupOrder

\* Issuer::_generate_revocation_keys for the points and elements drawn.
generate_revocation_keys(h, h0, h1, h2, g, htilde, u, x, sk) ==
    [pk_r |-> [g |-> g, h |-> h, h0 |-> h0, h1 |-> h1, h2 |-> h2,
               htilde |-> htilde, u |-> u, pk |-> point_mul(g, sk),
               y |-> point_mul(h, x)],
     sk_r |-> [x |-> x, sk |-> sk]]

\* The revocation keys tried.
RevocationKeys ==
    {generate_revocation_keys(2, 3, 4, 5, g, 7, 8, 3, 2) : g \in {1, 6}}

\* Issuer::_create_tau_list_values.  The inverse() that ends t3 is called on
\* the result of the last mul(), the product of all six factors.
create_tau_list_values(pk_r, accum, params, proof_c) ==
    LET t1 == point_add(point_mul(pk_r.h, params.rho),
                        point_mul(pk_r.htilde, params.o))
        t2 == point_add(point_add(point_mul(proof_c.e, params.c),
                                  point_mul(pk_r.h, mod_neg(params.m))),
                        point_mul(pk_r.htilde, mod_neg(params.t)))
        t3 == pair_inverse(
                  pair_mul(pair_mul(pair_pow(pair(proof_c.a, pk_r.h), params.c),
                                    pair_pow(pair(pk_r.htilde, pk_r.h), params.r)),
                           pair_mul(pair_mul(pair_mul(
                               pair_pow(pair(pk_r.htilde, pk_r.y), params.rho),
                               pair_pow(pair(pk_r.htilde, pk_r.h), params.m)),
                               pair_pow(pair(pk_r.h1, pk_r.h), params.m2)),
                               pair_pow(pair(pk_r.h2, pk_r.h), params.s))))
        t4 == pair_mul(pair_pow(pair(pk_r.htilde, accum.acc), params.r),
                       pair_pow(pair(point_neg(pk_r.g), pk_r.htilde),
                                params.r_prime))
        t5 == point_add(point_mul(pk_r.g, params.r),
                        point_mul(pk_r.htilde, params.o_prime))
        t6 == point_add(point_add(point_mul(proof_c.d, params.r_prime_prime),
                                  point_mul(pk_r.g, mod_neg(params.m_prime))),
                        point_mul(pk_r.htilde, mod_neg(params.t_prime)))
        t7 == pair_mul(pair_mul(
                  pair_pow(pair(point_add(pk_r.pk, proof_c.g), pk_r.htilde),
                           params.r_prime_prime),
                  pair_pow(pair(pk_r.htilde, pk_r.htilde),
                           mod_neg(params.m_prime))),
                  pair_pow(pair(pk_r.htilde, proof_c.s), params.r))
        t8 == pair_mul(pair_pow(pair(pk_r.htilde, pk_r.u), params.r),
                       pair_pow(pair(point_neg(pk_r.g), pk_r.htilde),
                                params.r_prime_prime_prime))
    IN <<t1, t2, t3, t4, t5, t6, t7, t8>>

\* Issuer::_create_tau_list_expected_values.
create_tau_list_expected_values(pk_r, accum, accum_pk, proof_c) ==
    LET t1 == proof_c.e
        t2 == 0
        t3 == pair_mul(pair(point_add(pk_r.h0, proof_c.g), pk_r.h),
                       pair_inverse(pair(proof_c.a, pk_r.y)))
        t4 == pair_mul(pair(proof_c.g, accum.acc),
                       pair_inverse(pair_mul(pair(pk_r.g, proof_c.w),
                                             accum_pk.z)))
        t5 == proof_c.d
        t6 == 0
        t7 == pair_mul(pair(point_add(pk_r.pk, proof_c.g), proof_c.s),
                       pair_inverse(pair(pk_r.g, pk_r.g)))
        t8 == pair_mul(pair(proof_c.g, pk_r.u),
                       pair_inverse(pair(pk_r.g, proof_c.u)))
    IN <<t1, t2, t3, t4, t5, t6, t7, t8>>

\* The sum of g * gamma^(f[j]) over j in S.
RECURSIVE TailSum(_, _, _, _)
TailSum(g, gamma, f, S) ==
    IF S = {} THEN 0
    ELSE LET j == CHOOSE k \in S : TRUE
         IN point_add(point_mul(g, pow_mod(gamma, f[j])),
                      TailSum(g, gamma, f, S \ {j}))

\* The non-revocation claim that _issue_non_revocation_claim (lines 282-318)
\* gives for index i, with the accumulator and the witness brought to the
\* members v (i among them) of a registry of capacity cap.
NonRevocationClaim(keys, gamma, cap, v, i, m2, ur, vr_prime_prime, c) ==
    LET pk_r == keys.pk_r
        g_i == point_mul(pk_r.g, pow_mod(gamma, i))
        sigma == point_mul(
                     point_add(point_add(point_add(point_add(pk_r.h0,
                         point_mul(pk_r.h1, m2)), ur), g_i),
                         point_mul(pk_r.h2, vr_prime_prime)),
                     fq_inverse(add_mod(keys.sk_r.x, c)))
        omega == TailSum(pk_r.g, gamma, [j \in v |-> cap + 1 - j + i], v \ {i})
        sigma_i == point_mul(pk_r.g,
                       fq_inverse(add_mod(keys.sk_r.sk, pow_mod(gamma, i))))
        u_i == point_mul(pk_r.u, pow_mod(gamma, i))
    IN [sigma |-> sigma, c |-> c, vr_prime_prime |-> vr_prime_prime,
        witness |-> [sigma_i |-> sigma_i, u_i |-> u_i, g_i |-> g_i,
                     omega |-> omega, v |-> v],
        g_i |-> g_i, i |-> i, m2 |-> m2,
        accumulator |-> [acc |-> TailSum(pk_r.g, gamma,
                                         [j \in v |-> cap + 1 - j], v)],
        acc_pk |-> [z |-> pair_pow(pair(pk_r.g, pk_r.g),
                                   pow_mod(gamma, cap + 1))]]

\* The proof values of an honest prover: ur = h2 * vr_prime blinds the claim
\* request, b holds the blinding values of the commitments.
HonestProver(pk_r, claim, vr_prime, b) ==
    LET w == claim.witness
    IN [params |->
            [rho |-> b.rho, r |-> b.r, r_prime |-> b.r_prime,
             r_prime_prime |-> b.r_prime_prime,
             r_prime_prime_prime |-> b.r_prime_prime_prime,
             o |-> b.o, o_prime |-> b.o_prime,
             m |-> (b.rho * claim.c) % GroupOrder,
             m_prime |-> (b.r * b.r_prime_prime) % GroupOrder,
             t |-> (b.o * claim.c) % GroupOrder,
             t_prime |-> (b.o_prime * b.r_prime_prime) % GroupOrder,
             m2 |-> claim.m2,
             s |-> add_mod(vr_prime, claim.vr_prime_prime),
             c |-> claim.c],
        proof_c |->
            [e |-> point_add(point_mul(pk_r.h, b.rho),
                             point_mul(pk_r.htilde, b.o)),
             d |-> point_add(point_mul(pk_r.g, b.r),
                             point_mul(pk_r.htilde, b.o_prime)),
             a |-> point_add(claim.sigma, point_mul(pk_r.htilde, b.rho)),
             g |-> point_add(claim.g_i, point_mul(pk_r.htilde, b.r)),
             w |-> point_add(w.omega, point_mul(pk_r.htilde, b.r_prime)),
             s |-> point_add(w.sigma_i,
                             point_mul(pk_r.htilde, b.r_prime_prime)),
             u |-> point_add(w.u_i,
                             point_mul(pk_r.htilde, b.r_prime_prime_prime))]]

\* The blinding values tried.
Blinders ==
    [rho : 1..MaxScalar, r : 1..MaxScalar, r_prime : {3},
     r_prime_prime : 1..MaxScalar, r_prime_prime_prime : {4},
     o : {5}, o_prime : {6}]

TauLists(keys, gamma, cap, v, i, c, b) ==
    /\ calc = NoCalc
    /\ i \in v
    /\ add_mod(keys.sk_r.x, c) # 0
    /\ add_mod(keys.sk_r.sk, pow_mod(gamma, i)) # 0
    /\ LET pk_r == keys.pk_r
           claim == NonRevocationClaim(keys, gamma, cap, v, i, 1,
                                       point_mul(pk_r.h2, 3), 2, c)
           prover == HonestProver(pk_r, claim, 3, b)
       IN calc' = [op |-> "tau", pk_r |-> pk_r, params |-> prover.params,
                   proof_c |-> prover.proof_c,
                   values |-> create_tau_list_values(
                       pk_r, claim.accumulator, prover.params, prover.proof_c),
                   expected |-> create_tau_list_expected_values(
                       pk_r, claim.accumulator, claim.acc_pk, prover.proof_c)]
    /\ UNCHANGED registry

GetNonRevocInterval(global_interval, local_interval) ==
    /\ calc = NoCalc
    /\ calc' = [op |-> "get_non_revoc_interval",
                global |-> global_interval, local |-> local_interval,
                interval |-> get_non_revoc_interval(global_interval,
                                                    local_interval)]
    /\ UNCHANGED registry

\* A function is applied once, to arguments of any kind.
NextPure ==
    \/ /\ calc = NoCalc
       /\ \E keys \in RevocationKeys, gamma \in {2, 3}, v \in SUBSET (1..2),
             c \in 1..MaxScalar, b \in Blinders :
             \E i \in v : TauLists(keys, gamma, 2, v, i, c, b)
    \/ /\ calc = NoCalc
       /\ \E keys \in KeyPairs, m2 \in 1..MaxSignInput,
             enc \in 1..MaxSignInput, v \in 1..MaxSignInput,
             e \in SignExponents :
             \E u \in 0..keys.public_key.n :
                 Sign(keys, m2, [a \in {"name"} |-> enc], v, u, e)
    \/ /\ calc = NoCalc
       /\ \E gi \in OptIntervals, li \in OptIntervals :
             GetNonRevocInterval(gi, li)
    \/ /\ calc = NoCalc
       /\ \E names \in Schemas, key \in Names : SignLookup(names, key)

SpecPure == Init /\ [][NextPure]_vars

IntervalCall == calc.op = "get_non_revoc_interval"

\* C17: get_non_revoc_interval returns local whenever local is present,
\* global when only global is present, and None exactly when both are
\* absent.
C17_LocalOverGlobal ==
    IntervalCall =>
        /\ calc.local.some => calc.interval = calc.local
        /\ (~calc.local.some /\ calc.global.some) => calc.interval = calc.global
        /\ ~calc.interval.some <=> (~calc.local.some /\ ~calc.global.some)

C17_Witness ==
    /\ IntervalCall /\ calc.local.some /\ calc.global.some
    /\ calc.local # calc.global

LookupCall == calc.op = "r.get"

\* C16: the lookup of a credential attribute name in public_key.r during
\* signing succeeds if and only if its canonical form (spaces removed, lower
\* case) is the canonical form of an attribute name of the schema the keys
\* were generated for; otherwise signing fails with InvalidStructure.
C16_CanonicalLookup ==
    LookupCall =>
        /\ calc.result.res = "Ok" <=>
              \E a \in calc.attribute_names :
                  attr_common_view(a) = attr_common_view(calc.key)
        /\ calc.result.res = "Err" => calc.result.kind = "InvalidStructure"

SignCall == calc.op = "_sign"

\* b to the power k modulo n.
RECURSIVE Power(_, _, _)
Power(b, k, n) == IF k = 0 THEN 1 ELSE (b * Power(b, k - 1, n)) % n

\* The left-hand side of the verification equation of a signed claim.
SignatureCheck ==
    LET pk == calc.public_key
        n == pk.n
        uFactor == IF calc.u = 0 THEN 1 ELSE calc.u % n
        rx == (Power(pk.r["name"], calc.attributes["name"], n)
                 * Power(pk.rctxt, calc.context_attribute, n)) % n
    IN (((Power(calc.a, calc.e, n) * Power(pk.s, calc.v, n)) % n)
          * ((rx * uFactor) % n)) % n

QuadraticResidue(y, n) == \E x \in 1..(n - 1) : (x * x) % n = y % n

\* C14 as stated: the A of every claim that _sign issues satisfies
\* A^e * S^v'' * Rx * rctxt^m2 * (u mod n) = Z (mod n), the factor u mod n
\* left out exactly when u = 0.
C14_SignatureVerifies ==
    (SignCall /\ calc.result.res = "Ok") =>
        SignatureCheck = calc.public_key.z % calc.public_key.n

\* The equation does hold for u = 0 and for u mod n a quadratic residue
\* modulo n, as the commitment of an honest prover is.
SignatureVerifiesForResidues ==
    (SignCall /\ calc.result.res = "Ok"
       /\ (calc.u = 0 \/ QuadraticResidue(calc.u, calc.public_key.n))) =>
        SignatureCheck = calc.public_key.z % calc.public_key.n

TauCall == calc.op = "tau"

\* C19: the t3 of _create_tau_list_values is
\* e(a,h)^c * e(htilde,h)^r * X^-1, with
\* X = e(htilde,y)^rho * e(htilde,h)^m * e(h1,h)^m2 * e(h2,h)^s: only X is
\* inverted.
C19_T3InvertsOnlyX ==
    TauCall =>
        LET pk_r == calc.pk_r
            params == calc.params
            X == pair_mul(pair_mul(pair_mul(
                     pair_pow(pair(pk_r.htilde, pk_r.y), params.rho),
                     pair_pow(pair(pk_r.htilde, pk_r.h), params.m)),
                     pair_pow(pair(pk_r.h1, pk_r.h), params.m2)),
                     pair_pow(pair(pk_r.h2, pk_r.h), params.s))
        IN calc.values[3] =
               pair_mul(pair_mul(pair_pow(pair(calc.proof_c.a, pk_r.h), params.c),
                                 pair_pow(pair(pk_r.htilde, pk_r.h), params.r)),
                        pair_inverse(X))

\* C15: for an honest prover state the eight values of
\* _create_tau_list_values equal, one by one, the eight of
\* _create_tau_list_expected_values.
C15_TauListEquality == TauCall => calc.values = calc.expected

\* The seven components other than t3 do agree.
TauListsAgreeButT3 ==
    TauCall => \A k \in (1..8) \ {3} : calc.values[k] = calc.expected[k]

\* The t3 that C19 describes would equal the expected t3.
TauListT3AsDescribedAgrees ==
    TauCall =>
        LET pk_r == calc.pk_r
            params == calc.params
            X == pair_mul(pair_mul(pair_mul(
                     pair_pow(pair(pk_r.htilde, pk_r.y), params.rho),
                     pair_pow(pair(pk_r.htilde, pk_r.h), params.m)),
                     pair_pow(pair(pk_r.h1, pk_r.h), params.m2)),
                     pair_pow(pair(pk_r.h2, pk_r.h), params.s))
        IN calc.expected[3] =
               pair_mul(pair_mul(pair_pow(pair(calc.proof_c.a, pk_r.h), params.c),
                                 pair_pow(pair(pk_r.htilde, pk_r.h), params.r)),
                        pair_inverse(X))

C13_BetweenSteps == seen.res = "BorrowError" /\ flight.pc = "v"

\* The caller gave a seq_number that was a member of v when the call began.
DuplicateIssue == IssueCall /\ last.arg.some /\ last.arg.x \in last.pre.v

\* C21: an issuance with a caller-supplied seq_number = i that is a member
\* of v never succeeds.  It fails with InvalidStructure (unless a primitive
\* failed first, with the primitive's error) and leaves acc and v as they
\* were, so no issuance adds to acc the tail of an index that is in v.
C21_DuplicateIndexFails ==
    /\ DuplicateIssue =>
          /\ Failed
          /\ last.result.msg # "primitive" =>
                 last.result.kind = "InvalidStructure"
          /\ accumulator.acc = last.pre.acc
          /\ accumulator.v = last.pre.v
    /\ (IssueCall /\ Succeeded) => last.i \notin last.pre.v

\* The duplicate reached the loop over v with room left in the accumulator:
\* it failed looking up the tail L + 1 - i + i.
C21_Witness ==
    /\ DuplicateIssue
    /\ Cardinality(last.pre.v) < L
    /\ last.result = ErrRes("InvalidStructure", "not found in g")
    /\ last.arg.x \in DOMAIN tails
    /\ L + 1 - last.arg.x \in DOMAIN tails

\* C22: whatever seq_number the callers give (0, negative, above L) and
\* whatever they revoke, every member of v lies in 1..L, hence v has at
\* most L = max_claim_num members.
C22_MembersInRange ==
    created =>
        /\ accumulator.v \subseteq 1..L
        /\ Cardinality(accumulator.v) <= L

\* An issuance for an index outside 1..L that has a tail of its own (0, or
\* one above L + 1) was refused with room left in v.
C22_Witness ==
    /\ IssueCall /\ last.arg.some
    /\ last.arg.x \notin 1..L
    /\ last.arg.x \in DOMAIN tails
    /\ last.pre.v # {} /\ Cardinality(last.pre.v) < L
    /\ last.result = ErrRes("InvalidStructure", "not found in g")
    /\ accumulator.v = last.pre.v

====
